---- MODULE Spec2Model ----
(***************************************************************************)
(* Model of ts-maybe-type: the Maybe<T> interface, its two classes Some    *)
(* and None, the factories of namespace Maybe and the free functions       *)
(* traverse and mapN.                                                      *)
(*                                                                         *)
(* JavaScript values are tagged records.  A function value is a closure    *)
(* record: either a caller-supplied callback (a finite table of outcomes)  *)
(* or one of the arrow functions written in the source, named by its text  *)
(* and carrying the variables it captures.  Invoke applies a closure.      *)
(* Every operation yields an execution record: the value it returns (or    *)
(* the fault it ends with) and the log of the caller-supplied callbacks    *)
(* it invoked, in order.                                                   *)
(***************************************************************************)
EXTENDS Integers, Sequences, FiniteSets, TLC

VARIABLES pc, op, self, args, out

vars == <<pc, op, self, args, out>>

\* Bounds of the model.
MaxNum == 1
MaxLen == 3
MaxCalls == 3

(***************************************************************************)
(* Values                                                                  *)
(***************************************************************************)
Num(n) == [t |-> "number", n |-> n]
Bool(b) == [t |-> "boolean", b |-> b]
Null == [t |-> "null"]
Undefined == [t |-> "undefined"]
Arr(xs) == [t |-> "array", xs |-> xs]

\* class Some<T> { constructor(private readonly value: T) {} }
Some(value) == [t |-> "Some", value |-> value]

\* class None<T>: no fields
None == [t |-> "None"]

\* A fault raised while an operation runs (throw e).
Throw(e) == [t |-> "throw", e |-> e]

IsThrow(v) == v.t = "throw"

IsMaybe(v) == v.t \in {"Some", "None"}

\* The value an otherwise unconstrained callback returns for given arguments.
App(name, a) == [t |-> "app", fn |-> name, args |-> a]

\* JavaScript truthiness, as the conditional operator applies it.
Truthy(v) ==
  CASE v.t = "boolean" -> v.b
    [] v.t = "number" -> v.n # 0
    [] v.t \in {"null", "undefined"} -> FALSE
    [] OTHER -> TRUE

(***************************************************************************)
(* Executions                                                              *)
(***************************************************************************)
Exec(ret, calls) == [ret |-> ret, calls |-> calls]

Pure(v) == Exec(v, <<>>)

Call(name, a) == [fn |-> name, args |-> a]

\* first; second: a fault of the first ends the whole, else the second's
\* result with both logs.
AndThen(first, second) ==
  IF IsThrow(first.ret) THEN first
  ELSE Exec(second.ret, first.calls \o second.calls)

\* A caller-supplied callback: table gives its outcome on the arguments the
\* caller has fixed; elsewhere it returns an unconstrained value.
UserFn(name, table) == [lam |-> "user", name |-> name, table |-> table]

Lam(text) == [lam |-> text]

RECURSIVE Invoke(_, _)

(***************************************************************************)
(* class Some                                                              *)
(***************************************************************************)
\* Variant: a new Presence of the default replaces the receiver.
Some_fillWhenNone_filling(this, defaultValue) == Pure(Some(defaultValue))

Some_fillWhenNone(this, defaultValue) == Pure(this)

\* Variant: the predicate's answer is taken the wrong way round.
Some_filter_negated(this, predicate) ==
  LET value == this.value
      p == Invoke(predicate, <<value>>)
  IN  AndThen(p, Pure(IF Truthy(p.ret) THEN None ELSE Some(value)))

Some_filter(this, predicate) ==
  LET value == this.value
      p == Invoke(predicate, <<value>>)
  IN  AndThen(p, Pure(IF Truthy(p.ret) THEN Some(value) ELSE None))

\* Variant: the mapper's result is wrapped again, as map does.
Some_flatMap_wrapping(this, mapper) ==
  LET r == Invoke(mapper, <<this.value>>)
  IN  AndThen(r, Pure(Some(r.ret)))

\* Variant: the mapper is invoked and its result dropped.
Some_flatMap_dropping(this, mapper) ==
  LET r == Invoke(mapper, <<this.value>>)
  IN  AndThen(r, Pure(None))

Some_flatMap(this, mapper) == Invoke(mapper, <<this.value>>)

\* Variant: the mapper's result is returned as it is, as flatMap does.
Some_map_unwrapped(this, mapper) == Invoke(mapper, <<this.value>>)

\* Variant: the mapper is invoked and an Absence returned, as None.map does.
Some_map_dropping(this, mapper) ==
  LET r == Invoke(mapper, <<this.value>>)
  IN  AndThen(r, Pure(None))

\* Variant: a fault of the mapper is caught and turned into an Absence.
Some_map_catching(this, mapper) ==
  LET r == Invoke(mapper, <<this.value>>)
  IN  Exec(IF IsThrow(r.ret) THEN None ELSE Some(r.ret), r.calls)

Some_map(this, mapper) ==
  LET r == Invoke(mapper, <<this.value>>)
  IN  AndThen(r, Pure(Some(r.ret)))

\* Variant: the handler of the other case is invoked, as None.match does.
Some_match_wrongHandler(this, matcher) == Invoke(matcher.none, <<>>)

Some_match(this, matcher) == Invoke(matcher.some, <<this.value>>)

\* Variant: a null-like wrapped value gives way to the default.
Some_valueOrDefault_nullish(this, defaultValue) ==
  Pure(IF this.value.t \in {"null", "undefined"} THEN defaultValue
       ELSE this.value)

Some_valueOrDefault(this, defaultValue) == Pure(this.value)

\* Variant: the supplier is invoked although its result is not needed.
Some_valueOrGet_eager(this, getDefaultValue) ==
  AndThen(Invoke(getDefaultValue, <<>>), Pure(this.value))

Some_valueOrGet(this, getDefaultValue) == Pure(this.value)

(***************************************************************************)
(* class None                                                              *)
(***************************************************************************)
None_fillWhenNone(this, defaultValue) == Pure(Some(defaultValue))

None_filter(this, predicate) == Pure(None)

\* Variant: the mapper is invoked without a value.
None_flatMap_invoking(this, mapper) == Invoke(mapper, <<Undefined>>)

None_flatMap(this, mapper) == Pure(None)

None_map(this, mapper) == Pure(None)

None_match(this, matcher) == Invoke(matcher.none, <<>>)

\* Variant: unwrapping an Absence is an error, as a checked getter has it.
None_valueOrDefault_throwing(this, defaultValue) ==
  Pure(Throw("NoSuchElementError"))

None_valueOrDefault(this, defaultValue) == Pure(defaultValue)

\* Variant: the supplier itself is returned, not its result.
None_valueOrGet_uncalled(this, getDefaultValue) == Pure(getDefaultValue)

\* valueOrGet(getDefaultValue) of the Absence: the supplier's result.
None_valueOrGet(this, getDefaultValue) == Invoke(getDefaultValue, <<>>)

(***************************************************************************)
(* interface Maybe: a method call dispatches on the receiver's class; a    *)
(* receiver that is no Maybe has no such method (TypeError).               *)
(***************************************************************************)
fillWhenNone(m, defaultValue) ==
  CASE m.t = "Some" -> Some_fillWhenNone(m, defaultValue)
    [] m.t = "None" -> None_fillWhenNone(m, defaultValue)
    [] OTHER -> Pure(Throw("TypeError"))

filter(m, predicate) ==
  CASE m.t = "Some" -> Some_filter(m, predicate)
    [] m.t = "None" -> None_filter(m, predicate)
    [] OTHER -> Pure(Throw("TypeError"))

flatMap(m, mapper) ==
  CASE m.t = "Some" -> Some_flatMap(m, mapper)
    [] m.t = "None" -> None_flatMap(m, mapper)
    [] OTHER -> Pure(Throw("TypeError"))

map(m, mapper) ==
  CASE m.t = "Some" -> Some_map(m, mapper)
    [] m.t = "None" -> None_map(m, mapper)
    [] OTHER -> Pure(Throw("TypeError"))

match(m, matcher) ==
  CASE m.t = "Some" -> Some_match(m, matcher)
    [] m.t = "None" -> None_match(m, matcher)
    [] OTHER -> Pure(Throw("TypeError"))

valueOrDefault(m, defaultValue) ==
  CASE m.t = "Some" -> Some_valueOrDefault(m, defaultValue)
    [] m.t = "None" -> None_valueOrDefault(m, defaultValue)
    [] OTHER -> Pure(Throw("TypeError"))

valueOrGet(m, getDefaultValue) ==
  CASE m.t = "Some" -> Some_valueOrGet(m, getDefaultValue)
    [] m.t = "None" -> None_valueOrGet(m, getDefaultValue)
    [] OTHER -> Pure(Throw("TypeError"))

(***************************************************************************)
(* namespace Maybe                                                         *)
(***************************************************************************)
\* Variant: a null-like value gives an Absence, as ofNullable has it.
Maybe_some_nullable(value) ==
  IF value \in {Null, Undefined} THEN None ELSE Some(value)

Maybe_some(value) == Some(value)

Maybe_none == None

\* Variant: x => !!x, which also rejects 0.
ofNullable_truthy(env, a) == Pure(Bool(Truthy(a[1])))

\* x => x != null: loose inequality, false for null and for undefined only.
ofNullable_notNull(env, a) == Pure(Bool(a[1].t \notin {"null", "undefined"}))

Maybe_ofNullable(value) == filter(Maybe_some(value), Lam("x => x != null"))

(***************************************************************************)
(* Arrays                                                                  *)
(***************************************************************************)
\* xs.concat(x): an argument that is an array is spread into the result,
\* any other argument is appended as one element.
concat(xs, x) ==
  Arr(IF x.t = "array" THEN xs.xs \o x.xs ELSE Append(xs.xs, x))

length(xs) == Len(xs.xs)

\* items.reduce(callback, initialValue), from position k on with accumulator
\* acc: callback(accumulator, item, index) for each item in order; a fault
\* ends the loop.
RECURSIVE reduceFrom(_, _, _, _)
reduceFrom(items, callback, acc, k) ==
  IF k > length(items) \/ IsThrow(acc.ret) THEN acc
  ELSE LET step == Invoke(callback, <<acc.ret, items.xs[k], Num(k - 1)>>)
       IN  reduceFrom(items, callback, AndThen(acc, step), k + 1)

reduce(items, callback, initialValue) ==
  reduceFrom(items, callback, Pure(initialValue), 1)

(***************************************************************************)
(* traverse                                                                *)
(***************************************************************************)
\* xs => xs.concat(x)
traverse_concat(env, a) == Pure(concat(a[1], env.x))

\* some: x => result.map(xs => xs.concat(x))
traverse_some(env, a) ==
  map(env.result, [lam |-> "xs => xs.concat(x)", x |-> a[1]])

\* none: () => result
traverse_none(env, a) == Pure(env.result)

\* Variant: the all-or-nothing traverse, which stops calling tryMap after
\* the first Absence.
traverse_reducer_strict(env, a) ==
  IF a[1].t = "None" THEN Pure(None)
  ELSE LET tried == Invoke(env.tryMap, <<a[2], a[3]>>)
       IN  AndThen(tried,
             Pure(IF tried.ret.t = "Some"
                  THEN Some(concat(a[1].value, tried.ret.value))
                  ELSE None))

\* (result, item, index) => tryMap(item, index).match({ some, none })
traverse_reducer(env, a) ==
  LET result == a[1]
      item == a[2]
      index == a[3]
      tried == Invoke(env.tryMap, <<item, index>>)
  IN  AndThen(tried,
        match(tried.ret,
              [some |-> [lam |-> "x => result.map(xs => xs.concat(x))",
                         result |-> result],
               none |-> [lam |-> "() => result", result |-> result]]))

\* Variant: the collected sequence is kept even when it is empty.
traverse_nonEmpty_always(env, a) == Pure(Bool(TRUE))

\* xs => xs.length > 0
traverse_nonEmpty(env, a) == Pure(Bool(length(a[1]) > 0))

traverse(items, tryMap) ==
  LET someItems ==
        reduce(items,
               [lam |-> "(result, item, index) => tryMap(item, index).match",
                tryMap |-> tryMap],
               Maybe_some(Arr(<<>>)))
  IN  AndThen(someItems, filter(someItems.ret, Lam("xs => xs.length > 0")))

(***************************************************************************)
(* mapN                                                                    *)
(***************************************************************************)
\* x => x
mapN_identity(env, a) == Pure(a[1])

\* args => args.length === maybeArgs.length
mapN_sameLength(env, a) == Pure(Bool(length(a[1]) = length(env.maybeArgs)))

\* args => fn(...args)
mapN_spread(env, a) == Invoke(env.fn, a[1].xs)

mapN(fn, maybeArgs) ==
  LET traversed == traverse(maybeArgs, Lam("x => x"))
      filtered == filter(traversed.ret,
                         [lam |-> "args => args.length === maybeArgs.length",
                          maybeArgs |-> maybeArgs])
      mapped == map(filtered.ret, [lam |-> "args => fn(...args)", fn |-> fn])
  IN  AndThen(traversed, AndThen(filtered, mapped))

(***************************************************************************)
(* apply                                                                   *)
(***************************************************************************)
\* none: () => Maybe.none<U>()
apply_none(env, a) == Pure(Maybe_none)

\* value => fn(value)
apply_call(env, a) == Invoke(env.fn, <<a[1]>>)

\* Variant: fn's result is taken for the container to return, as flatMap
\* does.
apply_some_flatMapping(env, a) ==
  flatMap(env.arg, [lam |-> "value => fn(value)", fn |-> a[1]])

\* some: fn => arg.map(value => fn(value))
apply_some(env, a) ==
  map(env.arg, [lam |-> "value => fn(value)", fn |-> a[1]])

apply(fun, arg) ==
  match(fun,
        [none |-> Lam("() => Maybe.none<U>()"),
         some |-> [lam |-> "fn => arg.map(value => fn(value))", arg |-> arg]])

(***************************************************************************)
(* combineResults, the example of fillWhenNone in the README               *)
(***************************************************************************)
\* y => x + y
combineResults_add(env, a) == Pure(Num(env.x.n + a[1].n))

\* some: x => results2.map(y => x + y).fillWhenNone(x)
combineResults_some(env, a) ==
  LET x == a[1]
      mapped == map(env.results2, [lam |-> "y => x + y", x |-> x])
  IN  AndThen(mapped, fillWhenNone(mapped.ret, x))

\* none: () => results2
combineResults_none(env, a) == Pure(env.results2)

combineResults(results1, results2) ==
  match(results1,
        [some |-> [lam |-> "x => results2.map(y => x + y).fillWhenNone(x)",
                   results2 |-> results2],
         none |-> [lam |-> "() => results2", results2 |-> results2]])

(***************************************************************************)
(* Equality of two containers as the tests assert it,                      *)
(* expect(a).toEqual(b): the own properties that are not undefined are     *)
(* compared, recursively; the classes of the two objects are not.          *)
(***************************************************************************)
\* The own properties of an instance: Some has value, None has none.
OwnProperties(m) == IF m.t = "Some" THEN {<<"value", m.value>>} ELSE {}

DefinedProperties(m) == {p \in OwnProperties(m) : p[2] # Undefined}

toEqual(a, b) == DefinedProperties(a) = DefinedProperties(b)

(***************************************************************************)
(* Function application                                                    *)
(***************************************************************************)
\* A caller-supplied callback is invoked: the call is logged.
Invoke_user(f, a) ==
  Exec(IF a \in DOMAIN f.table THEN f.table[a] ELSE App(f.name, a),
       <<Call(f.name, a)>>)

Invoke(f, a) ==
  CASE f.lam = "user" -> Invoke_user(f, a)
    [] f.lam = "xs => xs.concat(x)" -> traverse_concat(f, a)
    [] f.lam = "x => result.map(xs => xs.concat(x))" -> traverse_some(f, a)
    [] f.lam = "() => result" -> traverse_none(f, a)
    [] f.lam = "(result, item, index) => tryMap(item, index).match" ->
         traverse_reducer(f, a)
    [] f.lam = "xs => xs.length > 0" -> traverse_nonEmpty(f, a)
    [] f.lam = "x => x" -> mapN_identity(f, a)
    [] f.lam = "args => args.length === maybeArgs.length" ->
         mapN_sameLength(f, a)
    [] f.lam = "args => fn(...args)" -> mapN_spread(f, a)
    [] f.lam = "x => x != null" -> ofNullable_notNull(f, a)
    [] f.lam = "() => Maybe.none<U>()" -> apply_none(f, a)
    [] f.lam = "fn => arg.map(value => fn(value))" -> apply_some(f, a)
    [] f.lam = "value => fn(value)" -> apply_call(f, a)
    [] f.lam = "y => x + y" -> combineResults_add(f, a)
    [] f.lam = "x => results2.map(y => x + y).fillWhenNone(x)" ->
         combineResults_some(f, a)
    [] f.lam = "() => results2" -> combineResults_none(f, a)

(***************************************************************************)
(* Inputs                                                                  *)
(***************************************************************************)
SeqsUpTo(S, n) == UNION {[1..k -> S] : k \in 0..n}

Nums == {Num(n) : n \in 0..MaxNum}

\* Array values a container may wrap: empty, one element, two elements.
ArrVals == {Arr(<<>>), Arr(<<Num(0)>>), Arr(<<Num(0), Num(1)>>)}

Fault == Throw("fault")

\* What a tryMap call may produce: none(), some(number), some(array), a fault.
TryMapOutcomes ==
  {None} \cup {Some(v) : v \in Nums \cup {Arr(<<>>), Arr(<<Num(0)>>)}}
         \cup {Fault}

\* The containers handed to mapN.
MaybeArgVals == {None} \cup {Some(v) : v \in Nums \cup ArrVals}

\* The values a container under test may wrap.
Vals == Nums \cup {Null, Undefined} \cup ArrVals

MaybeVals == {None} \cup {Some(v) : v \in Vals}

MaybeNums == {None} \cup {Some(v) : v \in Nums}

\* What a flatMap mapper may produce: a container, a value that is no
\* container, a fault.
FlatMapOutcomes == MaybeVals \cup {Num(0), Null, Fault}

\* What a map mapper may produce: any value, a container, a fault.
MapOutcomes == Vals \cup {Some(Num(0)), None, Fault}

\* The argument a mapper is tabulated on for receiver m: the wrapped value,
\* or some value when there is none.
MapperArg(m) == IF m.t = "Some" THEN <<m.value>> ELSE <<Num(0)>>

\* The one-argument callbacks over the numbers with outcomes in S.
UnaryTables(S) == [{<<n>> : n \in Nums} -> S]

\* The callback that returns rets[i] for the i-th item and its index i - 1.
TryMapTable(items, rets) ==
  [p \in {<<items[i], Num(i - 1)>> : i \in 1..Len(items)} |-> rets[p[2].n + 1]]

(***************************************************************************)
(* State machine.  Client code prepares one call of the library (the       *)
(* operation op, its receiver self and its arguments args) and then makes  *)
(* it: the call runs to its end in one step and leaves its execution in    *)
(* out.                                                                    *)
(***************************************************************************)
TraverseCall ==
  \E items \in SeqsUpTo(Nums, MaxLen) :
    \E rets \in [1..Len(items) -> TryMapOutcomes] :
      /\ op = "traverse"
      /\ self = Undefined
      /\ args = <<Arr(items), UserFn("tryMap", TryMapTable(items, rets))>>

\* The values fn is meant to receive: those the containers wrap.
Unwrapped(maybeArgs) ==
  [i \in 1..Len(maybeArgs) |->
     IF maybeArgs[i].t = "Some" THEN maybeArgs[i].value ELSE Undefined]

\* mapN(fn, ...maybeArgs), with fn either unconstrained or ending with a
\* fault on the unwrapped values.
MapNCall ==
  \E maybeArgs \in SeqsUpTo(MaybeArgVals, MaxLen), throws \in BOOLEAN :
    /\ op = "mapN"
    /\ self = Undefined
    /\ args = <<UserFn("fn", IF throws
                             THEN [a \in {Unwrapped(maybeArgs)} |-> Fault]
                             ELSE <<>>),
                Arr(maybeArgs)>>

\* m.flatMap(mapper)
FlatMapCall ==
  \E m \in MaybeVals, outcome \in FlatMapOutcomes :
    /\ op = "flatMap"
    /\ self = m
    /\ args = <<UserFn("mapper", [a \in {MapperArg(m)} |-> outcome])>>

\* m.flatMap(f).flatMap(g)
FlatMapFlatMapCall ==
  \E m \in MaybeNums, f \in UnaryTables(MaybeNums), g \in UnaryTables(MaybeNums) :
    /\ op = "flatMap.flatMap"
    /\ self = m
    /\ args = <<UserFn("f", f), UserFn("g", g)>>

\* m.map(mapper)
MapCall ==
  \E m \in MaybeVals, outcome \in MapOutcomes :
    /\ op = "map"
    /\ self = m
    /\ args = <<UserFn("mapper", [a \in {MapperArg(m)} |-> outcome])>>

\* What a predicate may produce: true, false, a fault.
PredicateOutcomes == {Bool(TRUE), Bool(FALSE), Fault}

\* What a handler of match or a supplier may produce: a number, nothing
\* (undefined), a fault.
HandlerOutcomes == Nums \cup {Undefined, Fault}

\* m.map(f).map(g)
MapMapCall ==
  \E m \in MaybeNums, f \in UnaryTables(Nums), g \in UnaryTables(Nums) :
    /\ op = "map.map"
    /\ self = m
    /\ args = <<UserFn("f", f), UserFn("g", g)>>

\* m.filter(predicate)
FilterCall ==
  \E m \in MaybeVals, outcome \in PredicateOutcomes :
    /\ op = "filter"
    /\ self = m
    /\ args = <<UserFn("predicate", [a \in {MapperArg(m)} |-> outcome])>>

\* m.fillWhenNone(defaultValue)
FillWhenNoneCall ==
  \E m \in MaybeVals, defaultValue \in Vals :
    /\ op = "fillWhenNone"
    /\ self = m
    /\ args = <<defaultValue>>

\* m.match({ some, none })
MatchCall ==
  \E m \in MaybeVals, s \in HandlerOutcomes, n \in HandlerOutcomes :
    /\ op = "match"
    /\ self = m
    /\ args = <<[some |-> UserFn("some", [a \in {MapperArg(m)} |-> s]),
                none |-> UserFn("none", [a \in {<<>>} |-> n])]>>

\* m.valueOrDefault(defaultValue)
ValueOrDefaultCall ==
  \E m \in MaybeVals, defaultValue \in Vals :
    /\ op = "valueOrDefault"
    /\ self = m
    /\ args = <<defaultValue>>

\* m.valueOrGet(getDefaultValue)
ValueOrGetCall ==
  \E m \in MaybeVals, outcome \in HandlerOutcomes :
    /\ op = "valueOrGet"
    /\ self = m
    /\ args = <<UserFn("getDefaultValue", [a \in {<<>>} |-> outcome])>>

\* Maybe.ofNullable(value)
OfNullableCall ==
  \E value \in Vals :
    /\ op = "ofNullable"
    /\ self = Undefined
    /\ args = <<value>>

\* expect(a).toEqual(b)
ToEqualCall ==
  \E a \in MaybeVals, b \in MaybeVals :
    /\ op = "toEqual"
    /\ self = a
    /\ args = <<b>>

\* apply(fun, arg), arg being a container or, from an untyped caller, no
\* container at all.
ApplyCall ==
  \E arg \in MaybeVals \cup {Undefined}, outcome \in MapOutcomes,
     present \in BOOLEAN :
    /\ op = "apply"
    /\ self = Undefined
    /\ args = <<IF present
                THEN Maybe_some(UserFn("fn", [a \in {MapperArg(arg)} |-> outcome]))
                ELSE Maybe_none,
                arg>>

\* Maybe.some(value).match({ some, none })
SomeMatchCall ==
  \E value \in Vals, s \in HandlerOutcomes, n \in HandlerOutcomes :
    /\ op = "some.match"
    /\ self = Undefined
    /\ args = <<value,
                [some |-> UserFn("some", [a \in {<<value>>} |-> s]),
                 none |-> UserFn("none", [a \in {<<>>} |-> n])]>>

\* Maybe.some(value).valueOrDefault(defaultValue)
SomeValueOrDefaultCall ==
  \E value \in Vals, defaultValue \in Vals :
    /\ op = "some.valueOrDefault"
    /\ self = Undefined
    /\ args = <<value, defaultValue>>

\* Maybe.none().match({ some, none })
NoneMatchCall ==
  \E s \in HandlerOutcomes, n \in HandlerOutcomes :
    /\ op = "none.match"
    /\ self = Undefined
    /\ args = <<[some |-> UserFn("some", [a \in {<<Num(0)>>} |-> s]),
                 none |-> UserFn("none", [a \in {<<>>} |-> n])]>>

\* m.map(some).valueOrGet(none)
MapValueOrGetCall ==
  \E m \in MaybeVals, s \in HandlerOutcomes, n \in HandlerOutcomes :
    /\ op = "map.valueOrGet"
    /\ self = m
    /\ args = <<[some |-> UserFn("some", [a \in {MapperArg(m)} |-> s]),
                 none |-> UserFn("none", [a \in {<<>>} |-> n])]>>

\* combineResults(results1, results2)
CombineResultsCall ==
  \E results1 \in MaybeNums, results2 \in MaybeNums :
    /\ op = "combineResults"
    /\ self = Undefined
    /\ args = <<results1, results2>>

\* A chain m.f1(..).f2(..)... of map, flatMap, filter and fillWhenNone
\* calls, none made yet; args holds the calls made so far.
ChainCall ==
  \E m \in MaybeNums :
    /\ op = "chain"
    /\ self = m
    /\ args = <<>>

Init ==
  /\ pc = "ready"
  /\ out = Pure(Undefined)
  /\ \/ TraverseCall
     \/ MapNCall
     \/ FlatMapCall
     \/ FlatMapFlatMapCall
     \/ MapCall
     \/ MapMapCall
     \/ FilterCall
     \/ FillWhenNoneCall
     \/ MatchCall
     \/ ValueOrDefaultCall
     \/ ValueOrGetCall
     \/ OfNullableCall
     \/ ToEqualCall
     \/ ApplyCall
     \/ SomeMatchCall
     \/ SomeValueOrDefaultCall
     \/ NoneMatchCall
     \/ MapValueOrGetCall
     \/ CombineResultsCall
     \/ ChainCall

Returned(result) ==
  /\ out' = result
  /\ pc' = "returned"
  /\ UNCHANGED <<op, self, args>>

Traverse ==
  /\ pc = "ready"
  /\ op = "traverse"
  /\ Returned(traverse(args[1], args[2]))

MapN ==
  /\ pc = "ready"
  /\ op = "mapN"
  /\ Returned(mapN(args[1], args[2]))

FlatMap ==
  /\ pc = "ready"
  /\ op = "flatMap"
  /\ Returned(flatMap(self, args[1]))

FlatMapFlatMap ==
  /\ pc = "ready"
  /\ op = "flatMap.flatMap"
  /\ LET first == flatMap(self, args[1])
     IN  Returned(AndThen(first, flatMap(first.ret, args[2])))

Map ==
  /\ pc = "ready"
  /\ op = "map"
  /\ Returned(map(self, args[1]))

MapMap ==
  /\ pc = "ready"
  /\ op = "map.map"
  /\ LET first == map(self, args[1])
     IN  Returned(AndThen(first, map(first.ret, args[2])))

Filter ==
  /\ pc = "ready"
  /\ op = "filter"
  /\ Returned(filter(self, args[1]))

FillWhenNone ==
  /\ pc = "ready"
  /\ op = "fillWhenNone"
  /\ Returned(fillWhenNone(self, args[1]))

Match ==
  /\ pc = "ready"
  /\ op = "match"
  /\ Returned(match(self, args[1]))

ValueOrDefault ==
  /\ pc = "ready"
  /\ op = "valueOrDefault"
  /\ Returned(valueOrDefault(self, args[1]))

ValueOrGet ==
  /\ pc = "ready"
  /\ op = "valueOrGet"
  /\ Returned(valueOrGet(self, args[1]))

OfNullable ==
  /\ pc = "ready"
  /\ op = "ofNullable"
  /\ Returned(Maybe_ofNullable(args[1]))

ToEqual ==
  /\ pc = "ready"
  /\ op = "toEqual"
  /\ Returned(Pure(Bool(toEqual(self, args[1]))))

Apply ==
  /\ pc = "ready"
  /\ op = "apply"
  /\ Returned(apply(args[1], args[2]))

SomeMatch ==
  /\ pc = "ready"
  /\ op = "some.match"
  /\ Returned(match(Maybe_some(args[1]), args[2]))

SomeValueOrDefault ==
  /\ pc = "ready"
  /\ op = "some.valueOrDefault"
  /\ Returned(valueOrDefault(Maybe_some(args[1]), args[2]))

NoneMatch ==
  /\ pc = "ready"
  /\ op = "none.match"
  /\ Returned(match(Maybe_none, args[1]))

MapValueOrGet ==
  /\ pc = "ready"
  /\ op = "map.valueOrGet"
  /\ LET mapped == map(self, args[1].some)
     IN  Returned(AndThen(mapped, valueOrGet(mapped.ret, args[1].none)))

CombineResults ==
  /\ pc = "ready"
  /\ op = "combineResults"
  /\ Returned(combineResults(args[1], args[2]))

\* The execution of the chain so far: the receiver alone before the first
\* call.
Current == IF args = <<>> THEN Pure(self) ELSE out

\* One more call is made on the container the chain has produced; a chain
\* that ended with a fault, or produced no container, is not continued.
Chained(method, argument, result) ==
  /\ pc \in {"ready", "returned"}
  /\ op = "chain"
  /\ Len(args) < MaxCalls
  /\ IsMaybe(Current.ret)
  /\ out' = AndThen(Current, result)
  /\ args' = Append(args, [method |-> method, argument |-> argument])
  /\ pc' = "returned"
  /\ UNCHANGED <<op, self>>

\* What a callback of a chained call may produce.
ChainMapOutcomes == Nums \cup {Fault}

ChainFlatMapOutcomes == MaybeNums \cup {Fault}

ChainMap ==
  \E outcome \in ChainMapOutcomes :
    LET mapper == UserFn("mapper", [a \in {MapperArg(Current.ret)} |-> outcome])
    IN  Chained("map", mapper, map(Current.ret, mapper))

ChainFlatMap ==
  \E outcome \in ChainFlatMapOutcomes :
    LET mapper == UserFn("mapper", [a \in {MapperArg(Current.ret)} |-> outcome])
    IN  Chained("flatMap", mapper, flatMap(Current.ret, mapper))

ChainFilter ==
  \E outcome \in PredicateOutcomes :
    LET predicate ==
          UserFn("predicate", [a \in {MapperArg(Current.ret)} |-> outcome])
    IN  Chained("filter", predicate, filter(Current.ret, predicate))

ChainFillWhenNone ==
  \E defaultValue \in Nums :
    Chained("fillWhenNone", defaultValue,
            fillWhenNone(Current.ret, defaultValue))

Next ==
  \/ Traverse
  \/ MapN
  \/ FlatMap
  \/ FlatMapFlatMap
  \/ Map
  \/ MapMap
  \/ Filter
  \/ FillWhenNone
  \/ Match
  \/ ValueOrDefault
  \/ ValueOrGet
  \/ OfNullable
  \/ ToEqual
  \/ Apply
  \/ SomeMatch
  \/ SomeValueOrDefault
  \/ NoneMatch
  \/ MapValueOrGet
  \/ CombineResults
  \/ ChainMap
  \/ ChainFlatMap
  \/ ChainFilter
  \/ ChainFillWhenNone

Spec == Init /\ [][Next]_vars

(***************************************************************************)
(* traverse: what the calls of tryMap produced                             *)
(***************************************************************************)
TraverseReturned == pc = "returned" /\ op = "traverse"

\* The outcome of tryMap on the i-th item, as the caller fixed it.
TryMapOutcome(i) == args[2].table[<<args[1].xs[i], Num(i - 1)>>]

TryMapOutcomeSeq == [i \in 1..length(args[1]) |-> TryMapOutcome(i)]

NoTryMapFault == \A i \in 1..length(args[1]) : ~IsThrow(TryMapOutcome(i))

IsSome(m) == m.t = "Some"

\* The values of the Presence outcomes, in the order of their items.
Collected ==
  LET present == SelectSeq(TryMapOutcomeSeq, IsSome)
  IN  [i \in 1..Len(present) |-> present[i].value]

\* The position of the first tryMap call that ends with a fault, or the
\* number of items when none does.
RECURSIVE LastCallFrom(_)
LastCallFrom(i) ==
  IF i >= length(args[1]) \/ IsThrow(TryMapOutcome(i)) THEN i
  ELSE LastCallFrom(i + 1)

LastCall == IF length(args[1]) = 0 THEN 0 ELSE LastCallFrom(1)

\* C1: when at least one tryMap call yields Presence (and none ends with a
\* fault), traverse returns a Presence wrapping exactly the values of the
\* Presence outcomes, in the order of their items, the Absence ones left out.
C1_TraverseCollectsPresent ==
  (TraverseReturned /\ NoTryMapFault /\ Collected # <<>>)
    => out.ret = Some(Arr(Collected))

\* C2: traverse returns Absence if and only if the collected sequence is
\* empty (no item, or every tryMap call yields Absence), and never a
\* Presence wrapping an empty sequence.
C2_TraverseAbsentIffNothingCollected ==
  (TraverseReturned /\ NoTryMapFault)
    => /\ (out.ret = None) <=> (Collected = <<>>)
       /\ (Collected = <<>>) <=>
            (\A i \in 1..length(args[1]) : TryMapOutcome(i) = None)
       /\ out.ret # Some(Arr(<<>>))

\* C3: traverse invokes tryMap once per item, in input order, with the item
\* and its 0-based position, whatever the earlier calls yielded; only a
\* fault of tryMap itself ends the sequence of calls.
C3_TraverseCallsTryMapOncePerItem ==
  TraverseReturned
    => out.calls = [i \in 1..LastCall |->
                      Call("tryMap", <<args[1].xs[i], Num(i - 1)>>)]

\* An Absence at the first position, a Presence after it, and tryMap called
\* on all three items.
C3_Witness ==
  /\ TraverseReturned
  /\ length(args[1]) = 3
  /\ NoTryMapFault
  /\ TryMapOutcome(1) = None
  /\ IsSome(TryMapOutcome(2))
  /\ TryMapOutcome(3) = None
  /\ Len(out.calls) = 3

(***************************************************************************)
(* mapN                                                                    *)
(***************************************************************************)
MapNReturned == pc = "returned" /\ op = "mapN"

MapNValues == [i \in 1..length(args[2]) |-> args[2].xs[i].value]

\* The caller made fn end with a fault.
FnThrows == DOMAIN args[1].table # {}

\* C4: mapN(fn, a1, ..., aN) with N >= 1 and fn not throwing: if every
\* argument is a Presence, fn is invoked exactly once with the N unwrapped values in argument order
\* and the result is a Presence wrapping what fn returned; if at least one
\* argument is an Absence, the result is Absence and fn is never invoked.
C4_MapNAllOrNothing ==
  (MapNReturned /\ length(args[2]) >= 1 /\ ~FnThrows)
    => IF \A i \in 1..length(args[2]) : IsSome(args[2].xs[i])
       THEN out = Exec(Some(App("fn", MapNValues)),
                       <<Call("fn", MapNValues)>>)
       ELSE out = Exec(None, <<>>)

(***************************************************************************)
(* flatMap                                                                 *)
(***************************************************************************)
FlatMapReturned == pc = "returned" /\ op = "flatMap"

\* What the mapper of the call yields on the argument it is tabulated on.
MapperOutcome == args[1].table[MapperArg(self)]

\* C5: left identity: some(x).flatMap(f), with f returning a container,
\* invokes f exactly once, with x, and returns f(x) itself, not wrapped.
C5_FlatMapLeftIdentity ==
  (FlatMapReturned /\ IsSome(self) /\ IsMaybe(MapperOutcome))
    => out = Exec(MapperOutcome, <<Call("mapper", <<self.value>>)>>)

\* some(1).flatMap(f) with f(1) = some(0) has returned some(0).
C5_Witness ==
  /\ FlatMapReturned
  /\ self = Some(Num(1))
  /\ MapperOutcome = Some(Num(0))
  /\ out.ret = Some(Num(0))

\* C6: flatMap on Absence returns Absence and never invokes the mapper,
\* whatever the mapper would do (return a container, return a value that is
\* no container, or end with a fault).
C6_FlatMapOnNone ==
  (FlatMapReturned /\ self = None) => out = Exec(None, <<>>)

\* none().flatMap(f) has returned, with f a mapper that would end with a
\* fault.
C6_Witness ==
  /\ FlatMapReturned
  /\ self = None
  /\ MapperOutcome = Fault
  /\ out.ret = None

\* C7: right identity: m.flatMap(x => some(x)) equals m, for m a Presence
\* or an Absence.
C7_FlatMapRightIdentity ==
  (FlatMapReturned /\ MapperOutcome = Maybe_some(MapperArg(self)[1]))
    => out.ret = self

\* some(null).flatMap(x => some(x)) has returned some(null).
C7_Witness ==
  /\ FlatMapReturned
  /\ self = Some(Null)
  /\ MapperOutcome = Some(Null)
  /\ out.ret = Some(Null)

FlatMapFlatMapReturned == pc = "returned" /\ op = "flatMap.flatMap"

\* x => f(x).flatMap(g), tabulated where f is.
ThenFlatMap(f, g) ==
  UserFn("x => f(x).flatMap(g)",
         [a \in DOMAIN f.table |-> flatMap(f.table[a], g).ret])

\* C8: associativity: m.flatMap(f).flatMap(g) equals
\* m.flatMap(x => f(x).flatMap(g)), for f and g returning containers.
C8_FlatMapAssociative ==
  FlatMapFlatMapReturned
    => out.ret = flatMap(self, ThenFlatMap(args[1], args[2])).ret

\* some(0).flatMap(f).flatMap(g) with f(0) = some(1) and g(1) = some(0) has
\* returned some(0), both mappers invoked.
C8_Witness ==
  /\ FlatMapFlatMapReturned
  /\ self = Some(Num(0))
  /\ args[1].table[<<Num(0)>>] = Some(Num(1))
  /\ args[2].table[<<Num(1)>>] = Some(Num(0))
  /\ out = Exec(Some(Num(0)),
                <<Call("f", <<Num(0)>>), Call("g", <<Num(1)>>)>>)

(***************************************************************************)
(* map                                                                     *)
(***************************************************************************)
MapReturned == pc = "returned" /\ op = "map"

\* C9: map on Presence invokes the mapper exactly once, on the wrapped
\* value, and returns a Presence wrapping the mapper's result; map on
\* Absence returns Absence without invoking the mapper.
C9_Map ==
  (MapReturned /\ ~IsThrow(MapperOutcome))
    => IF IsSome(self)
       THEN out = Exec(Some(MapperOutcome), <<Call("mapper", <<self.value>>)>>)
       ELSE out = Exec(None, <<>>)

\* some(1).map(f) with f(1) = 0 has returned some(0).
C9_Witness ==
  /\ MapReturned
  /\ self = Some(Num(1))
  /\ MapperOutcome = Num(0)
  /\ out.ret = Some(Num(0))

\* C10: functor identity: m.map(x => x) equals m, for m a Presence of any
\* value or an Absence.
C10_MapIdentity ==
  (MapReturned /\ MapperOutcome = MapperArg(self)[1]) => out.ret = self

\* some([0]).map(x => x) has returned some([0]).
C10_Witness ==
  /\ MapReturned
  /\ self = Some(Arr(<<Num(0)>>))
  /\ MapperOutcome = Arr(<<Num(0)>>)
  /\ out.ret = Some(Arr(<<Num(0)>>))

MapMapReturned == pc = "returned" /\ op = "map.map"

\* x => g(f(x)), tabulated where f is.
Composed(f, g) ==
  UserFn("x => g(f(x))", [a \in DOMAIN f.table |-> g.table[<<f.table[a]>>]])

\* C11: functor composition: m.map(f).map(g) equals m.map(x => g(f(x))).
C11_MapComposition ==
  MapMapReturned => out.ret = map(self, Composed(args[1], args[2])).ret

\* some(0).map(f).map(g) with f(0) = 1 and g(1) = 0 has returned some(0),
\* both functions invoked.
C11_Witness ==
  /\ MapMapReturned
  /\ self = Some(Num(0))
  /\ args[1].table[<<Num(0)>>] = Num(1)
  /\ args[2].table[<<Num(1)>>] = Num(0)
  /\ out = Exec(Some(Num(0)),
                <<Call("f", <<Num(0)>>), Call("g", <<Num(1)>>)>>)

(***************************************************************************)
(* filter                                                                  *)
(***************************************************************************)
FilterReturned == pc = "returned" /\ op = "filter"

\* What the predicate of the call yields on the wrapped value.
PredicateOutcome == args[1].table[MapperArg(self)]

\* C12: some(x).filter(p) equals some(x) when p(x) is true and none() when
\* p(x) is false, with p invoked exactly once, on x; none().filter(p) equals
\* none() and p is not invoked.
C12_Filter ==
  (FilterReturned /\ ~IsThrow(PredicateOutcome))
    => IF IsSome(self)
       THEN out = Exec(IF PredicateOutcome = Bool(TRUE) THEN Some(self.value)
                       ELSE None,
                       <<Call("predicate", <<self.value>>)>>)
       ELSE out = Exec(None, <<>>)

\* some(1).filter(p) with p(1) false has returned none().
C12_Witness ==
  /\ FilterReturned
  /\ self = Some(Num(1))
  /\ PredicateOutcome = Bool(FALSE)
  /\ out.ret = None

(***************************************************************************)
(* fillWhenNone                                                            *)
(***************************************************************************)
FillWhenNoneReturned == pc = "returned" /\ op = "fillWhenNone"

\* C13: some(x).fillWhenNone(d) equals some(x), none().fillWhenNone(d)
\* equals some(d); the result is always a Presence.
C13_FillWhenNone ==
  FillWhenNoneReturned
    => /\ out = Pure(IF IsSome(self) THEN self ELSE Some(args[1]))
       /\ IsSome(out.ret)

\* some(1).fillWhenNone(0) has returned some(1).
C13_Witness ==
  /\ FillWhenNoneReturned
  /\ self = Some(Num(1))
  /\ args[1] = Num(0)
  /\ out.ret = Some(Num(1))

(***************************************************************************)
(* match                                                                   *)
(***************************************************************************)
MatchReturned == pc = "returned" /\ op = "match"

\* What the handler that matches the receiver yields.
HandlerOutcome ==
  IF IsSome(self) THEN args[1].some.table[<<self.value>>]
  ELSE args[1].none.table[<<>>]

\* C14: match invokes exactly one handler, exactly once: on Presence the
\* some handler with the wrapped value, on Absence the none handler with no
\* argument; what that handler returns is the result of match.
C14_Match ==
  (MatchReturned /\ ~IsThrow(HandlerOutcome))
    => out = Exec(HandlerOutcome,
                  <<IF IsSome(self) THEN Call("some", <<self.value>>)
                    ELSE Call("none", <<>>)>>)

\* some(1).match({ some, none }) with some(1) = 0 and none() = 1 has
\* returned 0.
C14_Witness ==
  /\ MatchReturned
  /\ self = Some(Num(1))
  /\ args[1].some.table[<<Num(1)>>] = Num(0)
  /\ args[1].none.table[<<>>] = Num(1)
  /\ out.ret = Num(0)

(***************************************************************************)
(* valueOrDefault, valueOrGet                                              *)
(***************************************************************************)
ValueOrDefaultReturned == pc = "returned" /\ op = "valueOrDefault"

\* C15: some(x).valueOrDefault(d) returns x, none().valueOrDefault(d)
\* returns d.
C15_ValueOrDefault ==
  ValueOrDefaultReturned
    => out = Pure(IF IsSome(self) THEN self.value ELSE args[1])

\* some(null).valueOrDefault(0) has returned null.
C15_Witness ==
  /\ ValueOrDefaultReturned
  /\ self = Some(Null)
  /\ args[1] = Num(0)
  /\ out.ret = Null

ValueOrGetReturned == pc = "returned" /\ op = "valueOrGet"

\* What the supplier of the call yields.
SupplierOutcome == args[1].table[<<>>]

C17_ValueOrGetOnSome ==
  (ValueOrGetReturned /\ IsSome(self)) => out = Pure(self.value)

\* some(1).valueOrGet(f) has returned 1, with f a supplier that would end
\* with a fault.
C17_Witness ==
  /\ ValueOrGetReturned
  /\ self = Some(Num(1))
  /\ SupplierOutcome = Fault
  /\ out = Pure(Num(1))

(***************************************************************************)
(* ofNullable                                                              *)
(***************************************************************************)
OfNullableReturned == pc = "returned" /\ op = "ofNullable"

NullLike == {Null, Undefined}

\* The caller's own predicate "x is not null-like", tabulated on v.
IsNotNullLike(v) ==
  UserFn("isNotNullLike", [a \in {<<v>>} |-> Bool(v \notin NullLike)])

\* C18: ofNullable maps null and undefined to Absence and every other input,
\* 0 included, to a Presence wrapping that input; it never yields a Presence
\* wrapping a null-like value, and it equals
\* some(value).filter(x => x is not null-like).
C18_OfNullable ==
  OfNullableReturned
    => /\ out.ret = (IF args[1] \in NullLike THEN None ELSE Some(args[1]))
       /\ out.ret \notin {Some(v) : v \in NullLike}
       /\ out.ret = filter(Maybe_some(args[1]), IsNotNullLike(args[1])).ret

\* ofNullable(0) has returned some(0).
C18_Witness ==
  /\ OfNullableReturned
  /\ args[1] = Num(0)
  /\ out.ret = Some(Num(0))

(***************************************************************************)
(* Equality                                                                *)
(***************************************************************************)
ToEqualReturned == pc = "returned" /\ op = "toEqual"

\* C19: two containers are equal if and only if both are Absence or both
\* are Presence wrapping equal values; no Presence equals an Absence.
C19_StructuralEquality ==
  ToEqualReturned
    => ((out.ret = Bool(TRUE))
          <=> \/ self = None /\ args[1] = None
              \/ IsSome(self) /\ IsSome(args[1]) /\ self.value = args[1].value)

(***************************************************************************)
(* Faults                                                                  *)
(***************************************************************************)
\* The caller-supplied callbacks of the call.
Callbacks ==
  CASE op = "traverse" -> {args[2]}
    [] op = "mapN" -> {args[1]}
    [] op = "apply" -> IF IsSome(args[1]) THEN {args[1].value} ELSE {}
    [] op \in {"flatMap", "map", "filter", "valueOrGet"} -> {args[1]}
    [] op \in {"flatMap.flatMap", "map.map"} -> {args[1], args[2]}
    [] op \in {"match", "none.match", "map.valueOrGet"} ->
         {args[1].some, args[1].none}
    [] op = "some.match" -> {args[2].some, args[2].none}
    [] OTHER -> {}

NoCallbackThrows ==
  \A f \in Callbacks : \A a \in DOMAIN f.table : ~IsThrow(f.table[a])

\* What the callback of the logged call c produced.
CallOutcome(c) ==
  LET f == CHOOSE g \in Callbacks : g.name = c.fn
  IN  IF c.args \in DOMAIN f.table THEN f.table[c.args] ELSE App(f.name, c.args)

MethodReturned ==
  /\ pc = "returned"
  /\ op \in {"fillWhenNone", "filter", "flatMap", "map", "match",
             "valueOrDefault", "valueOrGet"}

C22_CallbackFaultPropagates ==
  (pc = "returned" /\ op # "chain")
    => \A i \in 1..Len(out.calls) :
         IsThrow(CallOutcome(out.calls[i]))
           => /\ out.ret = CallOutcome(out.calls[i])
              /\ i = Len(out.calls)

\* mapN(fn, some(0), some(1)) with fn(0, 1) ending with a fault has ended
\* with that fault.
C22_Witness ==
  /\ MapNReturned
  /\ args[2] = Arr(<<Some(Num(0)), Some(Num(1))>>)
  /\ FnThrows
  /\ out = Exec(Fault, <<Call("fn", <<Num(0), Num(1)>>)>>)

(***************************************************************************)
(* apply                                                                   *)
(***************************************************************************)
ApplyReturned == pc = "returned" /\ op = "apply"

\* What the wrapped function yields on the value arg wraps.
ApplyOutcome == args[1].value.table[MapperArg(args[2])]

\* C23: apply(fun, arg) with fun an Absence returns Absence and calls no
\* operation of arg (arg may even be no container); with fun a Presence
\* wrapping f it equals arg.map(f): apply(some(f), some(x)) is some(f(x)), f
\* invoked once, and apply(some(f), none()) is none(), f never invoked.
C23_Apply ==
  ApplyReturned
    => IF args[1] = None THEN out = Exec(None, <<>>)
       ELSE IsMaybe(args[2])
              => /\ out = map(args[2], args[1].value)
                 /\ (IsSome(args[2]) /\ ~IsThrow(ApplyOutcome))
                      => out = Exec(Some(ApplyOutcome),
                                    <<Call("fn", <<args[2].value>>)>>)
                 /\ args[2] = None => out = Exec(None, <<>>)

\* apply(some(f), some(1)) with f(1) = 0 has returned some(0).
C23_Witness ==
  /\ ApplyReturned
  /\ IsSome(args[1])
  /\ args[2] = Some(Num(1))
  /\ ApplyOutcome = Num(0)
  /\ out = Exec(Some(Num(0)), <<Call("fn", <<Num(1)>>)>>)

(***************************************************************************)
(* The factories some and none                                             *)
(***************************************************************************)
SomeMatchReturned == pc = "returned" /\ op = "some.match"

SomeValueOrDefaultReturned == pc = "returned" /\ op = "some.valueOrDefault"

NoneMatchReturned == pc = "returned" /\ op = "none.match"

\* C24: some(value) is a Presence for every value, null and undefined
\* included: some(value).match invokes the some handler, with value, and
\* some(value).valueOrDefault(d) returns value, not d; none() is an Absence:
\* none().match invokes the none handler.
C24_SomeIsAlwaysPresence ==
  /\ SomeMatchReturned
       => out = Exec(args[2].some.table[<<args[1]>>],
                     <<Call("some", <<args[1]>>)>>)
  /\ SomeValueOrDefaultReturned => out = Pure(args[1])
  /\ NoneMatchReturned
       => out = Exec(args[1].none.table[<<>>], <<Call("none", <<>>)>>)

\* some(null).match({ some, none }) with some(null) = 1 and none() = 0 has
\* returned 1.
C24_Witness ==
  /\ SomeMatchReturned
  /\ args[1] = Null
  /\ args[2].some.table[<<Null>>] = Num(1)
  /\ args[2].none.table[<<>>] = Num(0)
  /\ out = Exec(Num(1), <<Call("some", <<Null>>)>>)

(***************************************************************************)
(* match as map followed by valueOrGet                                     *)
(***************************************************************************)
MapValueOrGetReturned == pc = "returned" /\ op = "map.valueOrGet"

ChainReturned == pc = "returned" /\ op = "chain"

\* No call among the first k of the chain is fillWhenNone.
NoFillWhenNone(k) == \A i \in 1..k : args[i].method # "fillWhenNone"

\* C26: gutter effect: starting from an Absence, after any sequence of map,
\* flatMap and filter calls the result is an Absence and no callback has
\* been invoked; a fillWhenNone(d) call after them yields the Presence of d.
C26_GutterEffect ==
  (ChainReturned /\ self = None)
    => /\ NoFillWhenNone(Len(args)) => out = Exec(None, <<>>)
       /\ (NoFillWhenNone(Len(args) - 1) /\ ~NoFillWhenNone(Len(args)))
            => out = Exec(Some(args[Len(args)].argument), <<>>)

\* none().map(f).flatMap(g).filter(p) has returned none(), f being a mapper
\* that would end with a fault.
C26_Witness ==
  /\ ChainReturned
  /\ self = None
  /\ Len(args) = 3
  /\ args[1].method = "map"
  /\ args[1].argument.table[<<Num(0)>>] = Fault
  /\ args[2].method = "flatMap"
  /\ args[3].method = "filter"
  /\ out = Exec(None, <<>>)

(***************************************************************************)
(* combineResults                                                          *)
(***************************************************************************)
CombineResultsReturned == pc = "returned" /\ op = "combineResults"

\* C27: combineResults is an OR of two optional numbers: (none, none) gives
\* none(), (some(x), none) gives some(x), (none, some(y)) gives some(y) and
\* (some(x), some(y)) gives some(x + y).
C27_CombineResults ==
  CombineResultsReturned
    => out.ret =
         (CASE args[1] = None /\ args[2] = None -> None
            [] IsSome(args[1]) /\ args[2] = None -> Some(args[1].value)
            [] args[1] = None /\ IsSome(args[2]) -> Some(args[2].value)
            [] IsSome(args[1]) /\ IsSome(args[2]) ->
                 Some(Num(args[1].value.n + args[2].value.n)))

\* combineResults(some(1), some(1)) has returned some(2).
C27_Witness ==
  /\ CombineResultsReturned
  /\ args = <<Some(Num(1)), Some(Num(1))>>
  /\ out.ret = Some(Num(2))

(***************************************************************************)
(* mapN with one argument, with no argument                                *)
(***************************************************************************)
\* C28: with N = 1, mapN(fn, maybeA) equals maybeA.map(fn), fn invoked the
\* same number of times with the same argument.
C28_MapNUnaryIsMap ==
  (MapNReturned /\ length(args[2]) = 1) => out = map(args[2].xs[1], args[1])

\* C29: mapN with a function and no container argument returns Absence and
\* never invokes fn.
C29_MapNOfNothing ==
  (MapNReturned /\ length(args[2]) = 0) => out = Exec(None, <<>>)

\* mapN(fn) has returned none(), fn being a function that would end with a
\* fault.
C29_Witness ==
  /\ MapNReturned
  /\ length(args[2]) = 0
  /\ FnThrows
  /\ out = Exec(None, <<>>)

(***************************************************************************)
(* map as flatMap followed by wrapping                                     *)
(***************************************************************************)
\* x => some(f(x)), tabulated where f is; its call of f is logged as f's.
ThenSome(f) ==
  UserFn(f.name,
         [a \in DOMAIN f.table |->
            IF IsThrow(f.table[a]) THEN f.table[a] ELSE Maybe_some(f.table[a])])

\* C30: m.map(f) equals m.flatMap(x => some(f(x))), f invoked the same
\* number of times on both sides.
C30_MapIsFlatMapThenSome ==
  MapReturned => out = flatMap(self, ThenSome(args[1]))

\* some(0).map(f) with f(0) = null has returned some(null), f invoked once.
C30_Witness ==
  /\ MapReturned
  /\ self = Some(Num(0))
  /\ MapperOutcome = Null
  /\ out = Exec(Some(Null), <<Call("mapper", <<Num(0)>>)>>)

====
